---- MODULE Spec2Model ----
(***************************************************************************)
(* Model of the promise queue of src/src/index.ts (the later revision of   *)
(* class Queue, lines 322-549): a bounded-concurrency scheduler of task    *)
(* factories with pacing, ordered completion and retry on rejection.       *)
(*                                                                         *)
(* One action is one run of JavaScript between two suspension points: a    *)
(* public call made by the user (enqueue, start, stop, clear), the         *)
(* settlement of an awaited factory promise, or the wake-up of a sleep     *)
(* (retry backoff, pacing).  Durations are abstracted: every order of      *)
(* settlements and wake-ups is possible.  The public method dequeue() is   *)
(* only modelled as called by the queue itself.                            *)
(***************************************************************************)
EXTENDS Integers, Sequences, FiniteSets, TLC

\* ---------------------------------------------------------------- bounds
MaxTasks == 3
MaxConcurrent == 2
MaxLadder == 1
MaxRetries == 1
MaxClears == 1

Tasks == 1..MaxTasks

\* ------------------------------------------------------------- constants
\* enum OnRejection
THROW == "THROW"
RETRY_THEN_THROW == "RETRY_THEN_THROW"
IGNORE == "IGNORE"
RETRY_THEN_IGNORE == "RETRY_THEN_IGNORE"
OnRejection == {THROW, RETRY_THEN_THROW, IGNORE, RETRY_THEN_IGNORE}

\* JavaScript's undefined, for an optional number
Undefined == -1

\* The retry predicates the model configures: none, one that declines, one
\* that accepts and overrides the interval with 0.
RetryConditions == {"null", "never", "override"}

\* A backoff ladder of length n: [1, 2, ..., n], as in the tests' [1, 2, 3]
Ladder(n) == [i \in 1..n |-> i]

VARIABLES
  \* configuration, fixed at construction
  concurrent, guaranteeOrder, onRejection, retryIntervals, alwaysRetry,
  retryCondition,
  \* fields of Queue
  startOnAdd, runningCount, queue, resolveObject, rejectObject, index,
  completed, isRunning,
  \* the asynchronous calls in progress, per task factory
  pc,        \* where the factory is: "new","queued","run","backoff","pacing","done","dropped"
  info,      \* inputInfo.index captured at dequeue
  rcount,    \* retryCount handed to handleRejection at the next failure
  inv,       \* number of invocations of the factory so far
  nextTask,  \* the next factory the user enqueues
  \* observation of the notifications
  out,       \* notifications emitted by the last step, in order
  op,        \* the last step
  resolved,  \* the values of all resolve notifications, in order
  nPrepare, nRetry, nReject, nFail,  \* per task: notifications about it
  settled,   \* per task: how its last invocation settled: "none","ok","err"
  nDequeued, \* dequeue notifications since the last clear()
  nClears, sinceStop, sinceFail,
  firstFresh \* the first factory enqueued since the last clear()

config == <<concurrent, guaranteeOrder, onRejection, retryIntervals,
            alwaysRetry, retryCondition>>
fields == <<startOnAdd, runningCount, queue, resolveObject, rejectObject,
            index, completed, isRunning>>
calls == <<pc, info, rcount, inv, nextTask>>
observed == <<out, op, resolved, nPrepare, nRetry, nReject, nFail, settled,
              nDequeued, nClears, sinceStop, sinceFail,
              firstFresh>>
vars == <<config, fields, calls, observed>>

\* ---------------------------------------------------------------- helpers
Ev(name, t, a) == [ev |-> name, task |-> t, arg |-> a]

emit(s, e) == [s EXCEPT !.out = Append(@, e)]

\* obj[k] = v on a JavaScript object used as a map
Put(obj, k, v) == [i \in DOMAIN obj \cup {k} |-> IF i = k THEN v ELSE obj[i]]
\* delete obj[k]
Delete(obj, k) == [i \in DOMAIN obj \ {k} |-> obj[i]]
\* {}
EmptyObject == [i \in {} |-> 0]

\* The mutable state the methods work on, as a record
Cur == [startOnAdd |-> startOnAdd, runningCount |-> runningCount,
        queue |-> queue, resolveObject |-> resolveObject,
        rejectObject |-> rejectObject, index |-> index,
        completed |-> completed, isRunning |-> isRunning,
        pc |-> pc, info |-> info, rcount |-> rcount, inv |-> inv,
        out |-> <<>>]

\* ---------------------------------------------------------------- getters
size(s) == Len(s.queue)
isEmpty(s) == size(s) = 0
shouldRun(s) == s.runningCount < concurrent /\ ~isEmpty(s)
started(s) == s.isRunning
stopped(s) == ~s.startOnAdd /\ ~started(s)

\* ---------------------------------------------------------------- methods
end(s) ==
  IF started(s)
  THEN emit([s EXCEPT !.isRunning = FALSE], Ev("end", 0, Undefined))
  ELSE s

\* dequeue that hands out the same sequence number again
dequeue_SameIndex(s) ==
  IF ~isEmpty(s)
  THEN LET t == Head(s.queue)
           s1 == [s EXCEPT !.queue = Tail(@),
                           !.runningCount = @ + 1,
                           !.info[t] = s.index,
                           !.rcount[t] = 0]
           s2 == emit(s1, Ev("dequeue", t, s.index))
       IN [s2 EXCEPT !.pc[t] = "run", !.inv[t] = @ + 1]
  ELSE emit(end(s), Ev("finish", 0, Undefined))

\* dequeue(), up to its await of the factory's promise
dequeue(s) ==
  IF ~isEmpty(s)
  THEN LET t == Head(s.queue)
           s1 == [s EXCEPT !.queue = Tail(@),
                           !.runningCount = @ + 1,
                           !.index = @ + 1,
                           !.info[t] = s.index,
                           !.rcount[t] = 0]
           s2 == emit(s1, Ev("dequeue", t, s.index))
       IN [s2 EXCEPT !.pc[t] = "run", !.inv[t] = @ + 1]
  ELSE emit(end(s), Ev("finish", 0, Undefined))

\* continue(), up to its await of the pacing sleep
continue(s, t) ==
  [s EXCEPT !.runningCount = @ - 1, !.pc[t] = "pacing"]

\* continue(), after the pacing sleep
continueWake(s, t) ==
  LET s1 == [s EXCEPT !.pc[t] = "done"]
  IN IF started(s1) THEN dequeue(s1) ELSE s1

fail(s, t) ==
  LET s1 == [s EXCEPT !.pc[t] = "done"]
  IN IF started(s1)
     THEN end(emit(s1, Ev("fail", t, s1.inv[t])))
     ELSE s1

\* the while loop of attemptEmit
RECURSIVE drain(_)
drain(s) ==
  IF s.completed \in DOMAIN s.resolveObject
  THEN LET r == s.resolveObject[s.completed]
           s1 == emit(s, Ev("resolve", r.task, r.inv))
       IN drain([s1 EXCEPT !.resolveObject = Delete(@, s.completed),
                           !.completed = @ + 1])
  ELSE IF s.completed \in DOMAIN s.rejectObject
  THEN drain([s EXCEPT !.rejectObject = Delete(@, s.completed),
                       !.completed = @ + 1])
  ELSE s

\* attemptEmit that emits every value at once, as if the order guarantee
\* were never read
attemptEmit_Unordered(s, t) ==
  continue(emit(s, Ev("resolve", t, s.inv[t])), t)

attemptEmit(s, t) ==
  LET res == [task |-> t, inv |-> s.inv[t]]
      s1 == IF guaranteeOrder
            THEN drain([s EXCEPT !.resolveObject = Put(@, s.info[t], res)])
            ELSE emit(s, Ev("resolve", res.task, res.inv))
  IN continue(s1, t)

\* rejectAndContinue that waits for another call to dequeue the next task
rejectAndContinue_NoDequeue(s, t) ==
  LET s1 == emit(s, Ev("reject", t, s.inv[t]))
  IN [s1 EXCEPT !.rejectObject = Put(@, s.info[t], t),
                !.runningCount = @ - 1,
                !.pc[t] = "done"]

rejectAndContinue(s, t) ==
  LET s1 == emit(s, Ev("reject", t, s.inv[t]))
      s2 == [s1 EXCEPT !.rejectObject = Put(@, s.info[t], t),
                       !.runningCount = @ - 1,
                       !.pc[t] = "done"]
  IN dequeue(s2)

\* retryIn with || in place of ??: an interval of 0 counts as absent
retryIn_ZeroIsAbsent(interval, retryCount) ==
  IF interval # Undefined /\ interval # 0 THEN interval
  ELSE IF retryCount + 1 \in DOMAIN retryIntervals
       THEN retryIntervals[retryCount + 1]
  ELSE IF Len(retryIntervals) > 0
       THEN retryIntervals[Len(retryIntervals)]
  ELSE Undefined

\* interval ?? retryIntervals[retryCount] ?? retryIntervals[length - 1]
retryIn(interval, retryCount) ==
  IF interval # Undefined THEN interval
  ELSE IF retryCount + 1 \in DOMAIN retryIntervals
       THEN retryIntervals[retryCount + 1]
  ELSE IF Len(retryIntervals) > 0
       THEN retryIntervals[Len(retryIntervals)]
  ELSE Undefined

\* attemptRetry that stops at the end of the ladder whatever alwaysRetry says
attemptRetry_LadderOnly(s, interval, retryCount, t) ==
  IF retryCount < Len(retryIntervals)
  THEN LET s1 == emit(s, Ev("prepareRetry", t, retryIn(interval, retryCount)))
       IN [s1 EXCEPT !.pc[t] = "backoff", !.rcount[t] = retryCount]
  ELSE IF onRejection = RETRY_THEN_THROW
       THEN fail(s, t)
       ELSE rejectAndContinue(s, t)

\* attemptRetry(), up to its await of the backoff sleep
attemptRetry(s, interval, retryCount, t) ==
  IF alwaysRetry \/ retryCount < Len(retryIntervals)
  THEN LET s1 == emit(s, Ev("prepareRetry", t, retryIn(interval, retryCount)))
       IN [s1 EXCEPT !.pc[t] = "backoff", !.rcount[t] = retryCount]
  ELSE IF onRejection = RETRY_THEN_THROW
       THEN fail(s, t)
       ELSE rejectAndContinue(s, t)

\* attemptRetry(), after the backoff sleep, up to its await of the factory
attemptRetryWake(s, t) ==
  LET s1 == emit(s, Ev("retry", t, Undefined))
  IN [s1 EXCEPT !.pc[t] = "run", !.inv[t] = @ + 1,
                !.rcount[t] = s.rcount[t] + 1]

\* this.retryCondition?.(err)
shouldRetry ==
  CASE retryCondition = "null" -> [defined |-> FALSE, retry |-> FALSE, interval |-> Undefined]
    [] retryCondition = "never" -> [defined |-> TRUE, retry |-> FALSE, interval |-> Undefined]
    [] retryCondition = "override" -> [defined |-> TRUE, retry |-> TRUE, interval |-> 0]

\* shouldRetry?.retry ?? true
retryOrTrue == IF shouldRetry.defined THEN shouldRetry.retry ELSE TRUE

handleRejection(s, t, retryCount) ==
  CASE onRejection = THROW -> fail(s, t)
    [] onRejection = RETRY_THEN_THROW ->
         IF retryOrTrue
         THEN attemptRetry(s, shouldRetry.interval, retryCount, t)
         ELSE fail(s, t)
    [] onRejection = IGNORE -> rejectAndContinue(s, t)
    [] onRejection = RETRY_THEN_IGNORE ->
         IF retryOrTrue
         THEN attemptRetry(s, shouldRetry.interval, retryCount, t)
         ELSE rejectAndContinue(s, t)

RECURSIVE startLoop(_)
startLoop(s) == IF shouldRun(s) THEN startLoop(dequeue(s)) ELSE s

\* start that dequeues one task at most
start_OneDequeue(s) ==
  LET s1 == emit([s EXCEPT !.isRunning = TRUE, !.startOnAdd = TRUE],
                 Ev("start", 0, Undefined))
  IN IF shouldRun(s1) THEN dequeue(s1) ELSE s1

start(s) ==
  startLoop(emit([s EXCEPT !.isRunning = TRUE, !.startOnAdd = TRUE],
                 Ev("start", 0, Undefined)))

stop(s) == end(emit([s EXCEPT !.startOnAdd = FALSE], Ev("stop", 0, Undefined)))

enqueue(s, t) ==
  LET s1 == [s EXCEPT !.queue = Append(@, t), !.pc[t] = "queued"]
      s2 == emit(s1, Ev("enqueue", t, Len(s1.queue) - 1))
  IN IF shouldRun(s2) /\ s2.startOnAdd THEN start(s2) ELSE s2

\* clear that forgets to reset the sequence number
clear_KeepsIndex(s) ==
  [s EXCEPT !.queue = <<>>,
            !.resolveObject = EmptyObject,
            !.rejectObject = EmptyObject,
            !.completed = 0,
            !.isRunning = FALSE,
            !.runningCount = 0,
            !.pc = [t \in Tasks |-> IF s.pc[t] = "queued" THEN "dropped" ELSE s.pc[t]]]

clear(s) ==
  [s EXCEPT !.queue = <<>>,
            !.resolveObject = EmptyObject,
            !.rejectObject = EmptyObject,
            !.index = 0,
            !.completed = 0,
            !.isRunning = FALSE,
            !.runningCount = 0,
            !.pc = [t \in Tasks |-> IF s.pc[t] = "queued" THEN "dropped" ELSE s.pc[t]]]

\* ------------------------------------------------------------ observation
CountAll(log, name) == Cardinality({i \in DOMAIN log : log[i].ev = name})

Count(log, name, t) ==
  Cardinality({i \in DOMAIN log : log[i].ev = name /\ log[i].task = t})

Has(log, name) == \E i \in DOMAIN log : log[i].ev = name

ResolvesOf(log) ==
  LET F[i \in 0..Len(log)] ==
        IF i = 0 THEN <<>>
        ELSE IF log[i].ev = "resolve"
             THEN Append(F[i - 1], [task |-> log[i].task, inv |-> log[i].arg])
             ELSE F[i - 1]
  IN F[Len(log)]

\* The step that took the queue from the current state to s
Commit(s, name) ==
  /\ startOnAdd' = s.startOnAdd
  /\ runningCount' = s.runningCount
  /\ queue' = s.queue
  /\ resolveObject' = s.resolveObject
  /\ rejectObject' = s.rejectObject
  /\ index' = s.index
  /\ completed' = s.completed
  /\ isRunning' = s.isRunning
  /\ pc' = s.pc
  /\ info' = s.info
  /\ rcount' = s.rcount
  /\ inv' = s.inv
  /\ out' = s.out
  /\ op' = name
  /\ resolved' = resolved \o ResolvesOf(s.out)
  /\ nPrepare' = [t \in Tasks |-> nPrepare[t] + Count(s.out, "prepareRetry", t)]
  /\ nRetry' = [t \in Tasks |-> nRetry[t] + Count(s.out, "retry", t)]
  /\ nReject' = [t \in Tasks |-> nReject[t] + Count(s.out, "reject", t)]
  /\ nFail' = [t \in Tasks |-> nFail[t] + Count(s.out, "fail", t)]
  /\ nDequeued' = (IF name = "clear" THEN 0 ELSE nDequeued)
                  + CountAll(s.out, "dequeue")
  /\ nClears' = IF name = "clear" THEN nClears + 1 ELSE nClears
  /\ sinceStop' = IF name = "stop" THEN TRUE
                  ELSE IF name = "start" THEN FALSE ELSE sinceStop
  /\ sinceFail' = IF Has(s.out, "fail") THEN TRUE
                  ELSE IF name = "start" THEN FALSE ELSE sinceFail
  /\ firstFresh' = IF name = "clear" THEN nextTask ELSE firstFresh
  /\ UNCHANGED config

\* ------------------------------------------------------------------- Init
Init ==
  /\ concurrent \in 1..MaxConcurrent
  /\ guaranteeOrder \in BOOLEAN
  /\ onRejection \in OnRejection
  /\ retryIntervals \in {Ladder(n) : n \in 0..MaxLadder}
  /\ alwaysRetry \in BOOLEAN
  /\ retryCondition \in RetryConditions
  \* the retry settings are read under the two retry policies only
  /\ onRejection \in {THROW, IGNORE} =>
       /\ retryIntervals = Ladder(MaxLadder)
       /\ alwaysRetry = FALSE
       /\ retryCondition = "null"
  \* the ladder is not read when the predicate always declines
  /\ retryCondition = "never" =>
       /\ alwaysRetry = FALSE
       /\ retryIntervals = Ladder(MaxLadder)
  /\ alwaysRetry => retryCondition = "null"
  /\ startOnAdd = TRUE
  /\ runningCount = 0
  /\ queue = <<>>
  /\ resolveObject = EmptyObject
  /\ rejectObject = EmptyObject
  /\ index = 0
  /\ completed = 0
  /\ isRunning = FALSE
  /\ pc = [t \in Tasks |-> "new"]
  /\ info = [t \in Tasks |-> 0]
  /\ rcount = [t \in Tasks |-> 0]
  /\ inv = [t \in Tasks |-> 0]
  /\ nextTask = 1
  /\ out = <<>>
  /\ op = "init"
  /\ resolved = <<>>
  /\ nPrepare = [t \in Tasks |-> 0]
  /\ nRetry = [t \in Tasks |-> 0]
  /\ nReject = [t \in Tasks |-> 0]
  /\ nFail = [t \in Tasks |-> 0]
  /\ settled = [t \in Tasks |-> "none"]
  /\ nDequeued = 0
  /\ nClears = 0
  /\ sinceStop = FALSE
  /\ sinceFail = FALSE
  /\ firstFresh = 1

\* ---------------------------------------------------------------- actions
\* the user calls enqueue(factory)
Enqueue ==
  /\ nextTask <= MaxTasks
  /\ nextTask' = nextTask + 1
  /\ Commit(enqueue(Cur, nextTask), "enqueue")
  /\ UNCHANGED settled

\* the user calls start()
Start ==
  /\ Commit(start(Cur), "start")
  /\ UNCHANGED <<nextTask, settled>>

\* the user calls stop()
Stop ==
  /\ Commit(stop(Cur), "stop")
  /\ UNCHANGED <<nextTask, settled>>

\* the user calls clear()
Clear ==
  /\ nClears < MaxClears
  /\ Commit(clear(Cur), "clear")
  /\ UNCHANGED <<nextTask, settled>>

\* the promise of factory t resolves: the try branch after the await
SettleResolve(t) ==
  /\ pc[t] = "run"
  /\ Commit(attemptEmit(Cur, t), "resolve")
  /\ settled' = [settled EXCEPT ![t] = "ok"]
  /\ UNCHANGED nextTask

\* the promise of factory t rejects: the catch branch after the await
SettleReject(t) ==
  /\ pc[t] = "run"
  /\ rcount[t] <= MaxRetries
  /\ Commit(handleRejection(Cur, t, rcount[t]), "reject")
  /\ settled' = [settled EXCEPT ![t] = "err"]
  /\ UNCHANGED nextTask

\* the backoff sleep of attemptRetry ends
RetryWake(t) ==
  /\ pc[t] = "backoff"
  /\ Commit(attemptRetryWake(Cur, t), "retryWake")
  /\ UNCHANGED <<nextTask, settled>>

\* the pacing sleep of continue ends
PacingWake(t) ==
  /\ pc[t] = "pacing"
  /\ Commit(continueWake(Cur, t), "pacingWake")
  /\ UNCHANGED <<nextTask, settled>>

Next ==
  \/ Enqueue
  \/ Start
  \/ Stop
  \/ \E t \in Tasks : SettleResolve(t)
  \/ \E t \in Tasks : SettleReject(t)
  \/ \E t \in Tasks : RetryWake(t)
  \/ \E t \in Tasks : PacingWake(t)

\* every interleaving of the user's calls other than clear() with the
\* settlements and wake-ups
Spec == Init /\ [][Next]_vars

\* the same with clear()
NextClear ==
  \/ Clear
  \/ Next

\* clear() is explored with the retry settings that end a task's retries
InitClear ==
  /\ Init
  /\ ~alwaysRetry
  /\ retryCondition # "override"

SpecClear == InitClear /\ [][NextClear]_vars

\* The retry policies with a predicate that accepts and overrides the
\* interval, or with none, also together with alwaysRetry
InitRetry ==
  /\ concurrent \in 1..MaxConcurrent
  /\ guaranteeOrder \in BOOLEAN
  /\ onRejection \in {RETRY_THEN_THROW, RETRY_THEN_IGNORE}
  /\ retryIntervals \in {Ladder(n) : n \in 0..MaxLadder}
  /\ alwaysRetry \in BOOLEAN
  /\ retryCondition \in {"null", "override"}
  /\ startOnAdd = TRUE
  /\ runningCount = 0
  /\ queue = <<>>
  /\ resolveObject = EmptyObject
  /\ rejectObject = EmptyObject
  /\ index = 0
  /\ completed = 0
  /\ isRunning = FALSE
  /\ pc = [t \in Tasks |-> "new"]
  /\ info = [t \in Tasks |-> 0]
  /\ rcount = [t \in Tasks |-> 0]
  /\ inv = [t \in Tasks |-> 0]
  /\ nextTask = 1
  /\ out = <<>>
  /\ op = "init"
  /\ resolved = <<>>
  /\ nPrepare = [t \in Tasks |-> 0]
  /\ nRetry = [t \in Tasks |-> 0]
  /\ nReject = [t \in Tasks |-> 0]
  /\ nFail = [t \in Tasks |-> 0]
  /\ settled = [t \in Tasks |-> "none"]
  /\ nDequeued = 0
  /\ nClears = 0
  /\ sinceStop = FALSE
  /\ sinceFail = FALSE
  /\ firstFresh = 1

SpecRetry == InitRetry /\ [][Next]_vars

\* ------------------------------------------------------------------ claims
\* C1: in every reachable state (enqueue, start, stop, settlements, retry
\* waits and pacing wake-ups; no clear(), no user call of dequeue()) the
\* in-flight count never exceeds the concurrency limit.
C1_InFlightWithinLimit == runningCount <= concurrent

\* the dequeued tasks have all finalized and nothing is pending
Quiescent ==
  /\ isEmpty(Cur)
  /\ \A t \in Tasks : pc[t] \in {"new", "pacing", "done"}

\* the tasks of the resolve notifications so far, in order
ResolvedTasks == [i \in DOMAIN resolved |-> resolved[i].task]

\* the tasks that resolved, by ascending sequence number
RECURSIVE Ascending(_)
Ascending(S) ==
  IF S = {} THEN <<>>
  ELSE LET t == CHOOSE x \in S : \A y \in S : info[x] <= info[y]
       IN <<t>> \o Ascending(S \ {t})

\* C2: with order guarantee and no clear(), the sequence numbers of the
\* tasks whose values are emitted in resolve notifications are strictly
\* increasing (so no value is emitted twice or before a smaller number's).
C2_ResolveInSequenceOrder ==
  guaranteeOrder =>
    \A i, j \in DOMAIN resolved :
      i < j => info[resolved[i].task] < info[resolved[j].task]

\* C2 witness: at concurrency 2 a buffered value is emitted together with
\* the value that was awaited, one of them produced by a retry
C2_Witness ==
  /\ guaranteeOrder
  /\ CountAll(out, "resolve") >= 2
  /\ \E i \in DOMAIN resolved : resolved[i].inv >= 2

\* C3: with order guarantee and a non-fatal policy, once the queue is empty
\* and every dequeued task has finalized, the resolve notifications are
\* exactly the values of the tasks that succeeded, in ascending sequence
\* order, each permanently failing task has exactly one reject
\* notification, and no value remains in the completion buffer.
C3_AllSucceededEmitted ==
  (guaranteeOrder /\ onRejection \in {IGNORE, RETRY_THEN_IGNORE} /\ Quiescent) =>
    /\ ResolvedTasks = Ascending({t \in Tasks : settled[t] = "ok"})
    /\ \A t \in Tasks : settled[t] = "err" => nReject[t] = 1
    /\ DOMAIN resolveObject = {}

\* C4: under fail-fast, after a fail notification no dequeue notification
\* occurs until the user calls start(), whatever else happens; the failure
\* itself emits one fail, no reject and no retry notification and ends
\* the Running state.
C4_NoDequeueAfterFail ==
  onRejection = THROW =>
    /\ (sinceFail /\ op # "start") => ~Has(out, "dequeue")
    /\ (op = "reject" /\ Has(out, "fail")) =>
         /\ CountAll(out, "fail") = 1
         /\ ~Has(out, "reject") /\ ~Has(out, "prepareRetry")
         /\ ~isRunning
\* the last invocation of t failed and no retry answered it
FailedForGood(t) == settled[t] = "err" /\ pc[t] = "done"

\* the resolve notifications that carry a value of task t
ResolvesFor(t) == {i \in DOMAIN resolved : resolved[i].task = t}

\* C5: under retry-then-fail with a predicate that always declines, a
\* failing task produces exactly one fail notification, no reject and no
\* retry notification; the step stops the Running state and dequeues
\* nothing.
C5_DeclinedFailsOnce ==
  (onRejection = RETRY_THEN_THROW /\ retryCondition = "never") =>
    /\ \A t \in Tasks : FailedForGood(t) =>
         /\ nFail[t] = 1 /\ nReject[t] = 0
         /\ nPrepare[t] = 0 /\ nRetry[t] = 0
    /\ op = "reject" => (~isRunning /\ ~Has(out, "dequeue"))

\* C6: with no predicate, always-retry unset and a ladder of length L, a
\* task that fails on every invocation is retried exactly L times (L
\* prepareRetry, L retry, L + 1 invocations), then has exactly one terminal
\* notification: fail under retry-then-fail, reject under
\* retry-then-ignore.
C6_ExhaustsLadderThenTerminal ==
  (onRejection \in {RETRY_THEN_THROW, RETRY_THEN_IGNORE}
     /\ retryCondition = "null" /\ ~alwaysRetry) =>
    \A t \in Tasks : FailedForGood(t) =>
      /\ nPrepare[t] = Len(retryIntervals)
      /\ nRetry[t] = Len(retryIntervals)
      /\ inv[t] = Len(retryIntervals) + 1
      /\ onRejection = RETRY_THEN_THROW => (nFail[t] = 1 /\ nReject[t] = 0)
      /\ onRejection = RETRY_THEN_IGNORE => (nReject[t] = 1 /\ nFail[t] = 0)

\* C7: under a retry policy with no predicate and a non-empty ladder, a
\* task that fails once and then succeeds has, once everything dequeued
\* has finalized, exactly one prepareRetry, one retry and one resolve
\* notification, carrying the value of the second invocation, and no
\* reject or fail notification.  Runs with a fatal failure, after which
\* outcomes need not be notified, are left out.
C7_FailOnceThenResolve ==
  (onRejection \in {RETRY_THEN_THROW, RETRY_THEN_IGNORE}
     /\ retryCondition = "null" /\ Len(retryIntervals) > 0 /\ Quiescent
     /\ \A u \in Tasks : nFail[u] = 0) =>
    \A t \in Tasks : (settled[t] = "ok" /\ inv[t] = 2) =>
      /\ nPrepare[t] = 1 /\ nRetry[t] = 1
      /\ Cardinality(ResolvesFor(t)) = 1
      /\ \A i \in ResolvesFor(t) : resolved[i].inv = 2
      /\ nReject[t] = 0 /\ nFail[t] = 0

\* C8: every failure that is not answered by a retry is surfaced by exactly
\* one reject or fail notification, in every state in which the task can
\* settle.
C8_EveryFailureSurfaced ==
  \A t \in Tasks : FailedForGood(t) => nReject[t] + nFail[t] = 1

\* C9: after stop() no dequeue notification occurs until start() is called
\* again, whatever the outcome of the tasks in flight; a success among them
\* still emits its resolve notification (at once when order is not
\* guaranteed).
C9_NoDequeueAfterStop ==
  /\ (sinceStop /\ op # "start") => ~Has(out, "dequeue")
  /\ (sinceStop /\ op = "resolve" /\ ~guaranteeOrder) => Has(out, "resolve")

\* the sequence number of the first dequeue notification of the last step
FirstDequeued ==
  out[CHOOSE i \in DOMAIN out :
        /\ out[i].ev = "dequeue"
        /\ \A j \in DOMAIN out : out[j].ev = "dequeue" => i <= j].arg

\* the last step made the first dequeue since clear()
FirstDequeueSinceClear ==
  /\ nClears > 0
  /\ Has(out, "dequeue")
  /\ nDequeued = CountAll(out, "dequeue")

\* C10: after clear(), in any state, size is 0, isEmpty is true, started
\* and shouldRun are false, the completion buffer is empty, and the next
\* task dequeued receives sequence number 0.
C10_ClearResets ==
  /\ op = "clear" =>
       /\ size(Cur) = 0 /\ isEmpty(Cur)
       /\ ~started(Cur) /\ ~shouldRun(Cur)
       /\ DOMAIN resolveObject = {} /\ DOMAIN rejectObject = {}
  /\ FirstDequeueSinceClear => FirstDequeued = 0

\* C10 witness: clear() was called with a task in flight, and a task was
\* dequeued afterwards while the old one is still in flight
C10_Witness ==
  /\ FirstDequeueSinceClear
  /\ \E t \in Tasks : pc[t] \in {"run", "backoff"} /\ Count(out, "dequeue", t) = 0

\* the factories enqueued since the last clear()
Fresh == {t \in Tasks : firstFresh <= t /\ t < nextTask}

\* C11: for the tasks enqueued after a clear() the scheduler behaves like a
\* new one, whatever the tasks that were in flight at the clear() do when
\* they settle: a start() or enqueue() that dequeues leaves at most
\* `concurrent` of the tasks enqueued since the clear() in flight (the old
\* tasks free no slot for them), and with order guarantee the value of the
\* task that was given sequence number 0 is emitted in the step in which
\* it settles (the old tasks neither emit in its place nor block it).
C11_ClearedLikeFresh ==
  /\ (op \in {"enqueue", "start"} /\ Has(out, "dequeue")) =>
       Cardinality({t \in Fresh : pc[t] \in {"run", "backoff"}}) <= concurrent
  /\ \A t \in Fresh :
       (guaranteeOrder /\ info[t] = 0 /\ settled[t] = "ok") =>
          \E i \in DOMAIN resolved : resolved[i].task = t

\* the step that rejected a task for good under a non-fatal policy
RejectStep ==
  /\ op' = "reject"
  /\ Has(out', "reject")

\* C12: a rejection under a non-fatal policy emits one reject and no fail
\* notification, releases the task's slot and, in the same step, dequeues
\* the next task when the pending queue is not empty, leaving the Running
\* state as it was (otherwise it ends the run: the slot is free and finish
\* is emitted).  So at concurrency 1 a first task that is rejected and a
\* second that resolves end with the second's value emitted and, when these
\* are all the tasks, an empty pending queue.
C12_RejectContinues ==
  /\ [][RejectStep =>
          /\ CountAll(out', "reject") = 1
          /\ ~Has(out', "fail")
          /\ IF queue # <<>>
             THEN /\ CountAll(out', "dequeue") = 1
                  /\ out'[2] = Ev("dequeue", Head(queue), index)
                  /\ queue' = Tail(queue)
                  /\ runningCount' = runningCount
                  /\ isRunning' = isRunning
             ELSE /\ runningCount' = runningCount - 1
                  /\ ~isRunning'
                  /\ Has(out', "finish")]_vars
  /\ []((concurrent = 1 /\ FailedForGood(1) /\ nReject[1] = 1
           /\ settled[2] = "ok") =>
          /\ \E i \in DOMAIN resolved : resolved[i].task = 2
          /\ nextTask = 3 => isEmpty(Cur))

\* C12 witness: at concurrency 1 the first task was rejected, the second
\* was dequeued by that step and has resolved, and nothing is pending
C12_Witness ==
  /\ concurrent = 1
  /\ FailedForGood(1) /\ nReject[1] = 1
  /\ settled[2] = "ok" /\ nextTask = 3
  /\ isEmpty(Cur)
  /\ \E i \in DOMAIN resolved : resolved[i].task = 2

\* every dequeued task has finalized (tasks may still be pending)
AllSettled == \A t \in Tasks : pc[t] \in {"new", "queued", "pacing", "done"}

\* C13: under the default policy (retry-then-fail, no predicate, a
\* non-empty ladder, order guarantee), when tasks that fail on every
\* invocation run next to tasks that fail once and then succeed, then once
\* every dequeued task has finalized the resolve notifications are the
\* values of all the tasks that succeeded, in ascending sequence order.
C13_SucceededAmongFailedEmitted ==
  (onRejection = RETRY_THEN_THROW /\ retryCondition = "null" /\ ~alwaysRetry
     /\ Len(retryIntervals) > 0 /\ guaranteeOrder /\ AllSettled) =>
    ResolvedTasks = Ascending({t \in Tasks : settled[t] = "ok"})

\* C14: with the order guarantee disabled, every successful settlement
\* emits its resolve notification in its own step (so the values are
\* emitted in the order of the settlements), the completion buffer, of
\* resolved and of rejected records, stays empty and the completion cursor
\* stays where it was at construction.
C14_UnorderedEmitsAtOnce ==
  ~guaranteeOrder =>
    /\ op = "resolve" => CountAll(out, "resolve") = 1
    /\ DOMAIN resolveObject = {}
    /\ DOMAIN rejectObject = {}
    /\ completed = 0

Min(a, b) == IF a <= b THEN a ELSE b

\* the number of tasks start() dequeues with `pending` tasks in the queue
\* and an in-flight count of r: the free slots, as far as tasks are pending
Filled(pending, r) == IF r < concurrent THEN Min(pending, concurrent - r) ELSE 0

\* no task has settled yet and auto-start is on
OnlyEnqueued ==
  /\ startOnAdd
  /\ nextTask > 1
  /\ \A t \in Tasks : settled[t] = "none" /\ pc[t] \in {"new", "queued", "run"}

RetriesForEver ==
  /\ onRejection \in {RETRY_THEN_THROW, RETRY_THEN_IGNORE}
  /\ alwaysRetry
  /\ retryCondition = "null"

\* the wait the ladder gives the failure with retry count k: its entry for
\* k, and its last entry from the ladder's length on (none when it is empty)
LadderWait(k) ==
  IF k < Len(retryIntervals) THEN retryIntervals[k + 1]
  ELSE IF Len(retryIntervals) > 0 THEN retryIntervals[Len(retryIntervals)]
  ELSE Undefined

\* C16: with always-retry and no predicate, a task whose last invocation
\* failed is waiting for its retry or running it, never finalized: no fail
\* and no reject notification is emitted, every failure has its
\* prepareRetry and every elapsed wait its retry, a failure step emits
\* nothing but a prepareRetry that carries the ladder's entry for the retry
\* count, the last entry from the ladder's length on, and leaves the
\* in-flight count as it was.
C16_AlwaysRetryNeverTerminal ==
  /\ [](RetriesForEver =>
          /\ \A t \in Tasks :
               /\ nFail[t] = 0 /\ nReject[t] = 0
               /\ settled[t] = "err" =>
                    /\ pc[t] \in {"backoff", "run"}
                    /\ nRetry[t] = inv[t] - 1
                    /\ nPrepare[t] = IF pc[t] = "backoff" THEN inv[t] ELSE inv[t] - 1
          /\ op = "reject" =>
               /\ Len(out) = 1
               /\ out[1].ev = "prepareRetry"
               /\ pc[out[1].task] = "backoff"
               /\ out[1].arg = LadderWait(rcount[out[1].task]))
  /\ [][(RetriesForEver /\ op' = "reject") => runningCount' = runningCount]_vars

\* C16 witness: a task failed beyond the ladder's length and waits the
\* ladder's last entry for its next retry
C16_Witness ==
  /\ RetriesForEver
  /\ op = "reject"
  /\ Len(retryIntervals) > 0
  /\ \E t \in Tasks :
       /\ pc[t] = "backoff" /\ inv[t] > Len(retryIntervals)
       /\ out = <<Ev("prepareRetry", t, retryIntervals[Len(retryIntervals)])>>

\* the tasks that were dequeued and have not reached a terminal outcome
InFlight == {t \in Tasks : pc[t] \in {"run", "backoff"}}

\* C17: in every reachable state the in-flight count is the number of
\* tasks dequeued and not yet resolved, rejected or failed for good (so
\* every task releases its slot exactly once, when it finalizes), and it
\* is never negative.
C17_CountIsTasksInFlight ==
  /\ runningCount = Cardinality(InFlight)
  /\ runningCount >= 0

\* the tasks that have been dequeued
Dequeued == {t \in Tasks : pc[t] \in {"run", "backoff", "pacing", "done"}}

\* the rank of the i-th notification of the last step among the dequeue
\* notifications since the last clear()
DequeueRank(i) ==
  nDequeued - CountAll(out, "dequeue")
    + Cardinality({j \in 1..i : out[j].ev = "dequeue"})

\* C18: between two clear() calls the k-th dequeue notification carries
\* sequence number k - 1 and the k-th factory enqueued since the clear();
\* the next number to assign is the number of dequeues so far, so none is
\* skipped or used twice; a task keeps its number whatever it does after
\* its dequeue (retries included); and the enqueue notification carries
\* the position the factory takes in the pending queue, not a sequence
\* number.
C18_DenseSequenceNumbers ==
  /\ [](/\ \A i \in DOMAIN out : out[i].ev = "dequeue" =>
             /\ out[i].arg = DequeueRank(i) - 1
             /\ out[i].task = firstFresh + DequeueRank(i) - 1
        /\ index = nDequeued
        /\ \A t \in Fresh \cap Dequeued : info[t] = t - firstFresh)
  /\ [][/\ \A t \in Dequeued : info'[t] = info[t]
        /\ op' = "enqueue" => out'[1] = Ev("enqueue", nextTask, Len(queue))]_vars

\* C18 witness: after a clear() the second task enqueued since then was
\* dequeued second, with sequence number 1, and has been retried
C18_Witness ==
  /\ nClears > 0
  /\ firstFresh > 1
  /\ \E t \in Fresh : t = firstFresh + 1 /\ info[t] = 1 /\ inv[t] = 2 /\ nRetry[t] = 1

\* C19: in every reachable state, whatever enqueue, start, stop, clear()
\* and settlements came before, the completion buffer holds no resolved
\* and no rejected record below the completion cursor, and the cursor is
\* at most the number of sequence numbers assigned so far.
C19_BufferAheadOfCursor ==
  /\ \A k \in DOMAIN resolveObject : k >= completed
  /\ \A k \in DOMAIN rejectObject : k >= completed
  /\ completed <= index

\* C20: every change of the Running state comes with its notification in
\* the same step: a step that takes isRunning from true to false (stop, a
\* fatal failure, a dequeue on the empty queue, clear()) emits exactly one
\* end notification, a step that takes it from false to true emits start,
\* and a step that starts and ends with isRunning false and emits no start
\* emits no end.
C20_RunningChangesNotified ==
  [][/\ (isRunning /\ ~isRunning') => CountAll(out', "end") = 1
     /\ (~isRunning /\ isRunning') => Has(out', "start")
     /\ (~isRunning /\ ~isRunning' /\ ~Has(out', "start")) => ~Has(out', "end")]_vars

\* the wait C21 states for a failure with attempt count k: the predicate's
\* interval when it gives one, otherwise the ladder's
StatedWait(k) ==
  IF retryCondition = "override" THEN 0 ELSE LadderWait(k)

\* C21: under the retry policies every failure of a task, of its first
\* invocation and of its retries alike, is answered with the predicate's
\* verdict and the task's attempt count, which is 0 at the dequeue and one
\* more after each retry: when the predicate declines there is no retry;
\* otherwise, when the count is below the ladder's length (or alwaysRetry
\* is set), the step emits prepareRetry first, carrying the predicate's
\* interval when it gives one (0 included), otherwise the ladder's entry at
\* the count, otherwise the ladder's last entry; and when the count has
\* reached the ladder's length the task is finalized without a retry, with
\* or without an interval from the predicate.
C21_RetryWait ==
  [][/\ \A t \in Tasks :
          (op' = "reject" /\ pc[t] = "run" /\ pc'[t] # "run"
             /\ onRejection \in {RETRY_THEN_THROW, RETRY_THEN_IGNORE}) =>
            IF retryCondition # "never"
                 /\ (alwaysRetry \/ rcount[t] < Len(retryIntervals))
            THEN /\ out'[1] = Ev("prepareRetry", t, StatedWait(rcount[t]))
                 /\ pc'[t] = "backoff"
                 /\ rcount'[t] = rcount[t]
            ELSE /\ ~Has(out', "prepareRetry")
                 /\ pc'[t] = "done"
     /\ \A t \in Tasks :
          /\ (pc[t] = "queued" /\ pc'[t] = "run") => rcount'[t] = 0
          /\ (pc[t] = "backoff" /\ pc'[t] = "run") => rcount'[t] = rcount[t] + 1]_vars

\* C21 witness: the failure of a retry, beyond the ladder's length, was
\* answered with the predicate's interval 0, not the ladder's last entry
C21_Witness ==
  /\ retryCondition = "override"
  /\ Len(retryIntervals) > 0
  /\ op = "reject"
  /\ \E t \in Tasks :
       /\ rcount[t] >= Len(retryIntervals) /\ inv[t] = rcount[t] + 1
       /\ pc[t] = "backoff"
       /\ out = <<Ev("prepareRetry", t, 0)>>

\* the last run ended by draining the pending queue (not by stop(), a
\* fatal failure or clear()) and no run has started since
DrainedRun ==
  /\ ~isRunning
  /\ nDequeued > 0
  /\ ~sinceStop /\ ~sinceFail /\ nClears = 0

\* C22: a run that drains the pending queue emits exactly one finish and
\* one end notification: the step that finds the queue empty while Running
\* emits one of each and ends the run, the slots that finalize afterwards,
\* before the scheduler runs again, emit neither, and a finish
\* notification leaves the pending queue empty.
C22_OneFinishPerRun ==
  [][/\ Has(out', "finish") => queue' = <<>>
     /\ (isRunning /\ Has(out', "finish")) =>
          /\ CountAll(out', "finish") = 1
          /\ CountAll(out', "end") = 1
          /\ ~isRunning'
     /\ (DrainedRun /\ ~isRunning') =>
          (~Has(out', "finish") /\ ~Has(out', "end"))]_vars

\* the tasks that failed fatally
FatallyFailed == {u \in Tasks : nFail[u] > 0}

\* C23: with order guarantee and no clear(), after a fatal failure a
\* start() resumes the scheduler: it leaves no task pending while fewer
\* than `concurrent` tasks are really in flight, and once nothing is
\* pending and every dequeued task has finalized (so that no further
\* notification can come without new input), every task that was dequeued
\* after the failed one and succeeded has its value in a resolve
\* notification.
C23_ResumeAfterFatalFailure ==
  (guaranteeOrder /\ FatallyFailed # {}) =>
    /\ (op = "start" /\ queue # <<>>) => Cardinality(InFlight) >= concurrent
    /\ Quiescent =>
         \A t \in Tasks :
           (settled[t] = "ok" /\ \E u \in FatallyFailed : info[u] < info[t]) =>
             \E i \in DOMAIN resolved : resolved[i].task = t
====
